---- MODULE Spec2Model ----
(***************************************************************************)
(* Buffer/cursor model of the MathJax editor (src/src/Editor.js).          *)
(*                                                                         *)
(* The editor's value is a JavaScript string; it is modelled as a sequence *)
(* of one-character strings.  JavaScript indices are 0-based: At(v, i) is  *)
(* v[i] of the source, slice(v, a, b) is v.slice(a, b).                    *)
(***************************************************************************)
EXTENDS Integers, Sequences, FiniteSets, TLC

\* ------------------------------------------------------------------ bounds
\* Longest buffer the model explores.
MaxLen == 5
\* Largest blockCount passed to insertCommand.
MaxBlocks == 2
\* Most render requests issued while the hub's queue is followed.
MaxRequests == 3
\* --------------------------------------------------------------- constants
KEY_BACKSPACE == 8
KEY_LEFT == 37
KEY_RIGHT == 39
\* A key code that is none of the three above (the letter key "A").
KEY_OTHER == 65
\* `which = null` (handleInputEvent on keyup); falsy like 0 in `if (which)`.
KEY_NULL == 0

\* The characters typed: backslash, the two braces and an ordinary letter.
Chars == {"\\", "{", "}", "a"}
\* `char` absent (undefined or the empty string): `!char` is true.
NoChar == ""
\* value[i] for an index outside the string.
Undefined == "undefined"
\* coordinates.start = null is the empty sequence, a set start i is <<i>>.
Null == <<>>

\* Command names handed to insertCommand: the bare backslash and "\a".
Commands == {<<"\\">>, <<"\\", "a">>}
BlockCounts == 1..MaxBlocks
Keys == {KEY_NULL, KEY_BACKSPACE, KEY_LEFT, KEY_RIGHT, KEY_OTHER}

\* The (which, char) pairs handed to handleInput: every key alone, and a typed
\* character on keyup (which = null) or together with an unrecognised key.
\* handleInput never reads char for the three recognised keys.
Inputs == (Keys \X {NoChar}) \cup ({KEY_NULL, KEY_OTHER} \X Chars)
\* Strings handed to a direct insert call: the empty string, and strings with
\* braces and backslashes.
Texts == {<<>>, <<"a">>, <<"{", "}">>, <<"{", "\\">>, <<"a", "}", "{">>}

\* The marker updateDebug splices into the jax it hands to the renderer.
CursorMarker == <<"{", "\\", "c", "u", "r", "s", "o", "r", "}">>
\* Typed bursts: the trimmed value of the input element at a key event.
Bursts == {<<>>, <<"a">>, <<"a", "\\">>, <<"\\", "a">>, <<"{", "a">>}
EventTypes == {"keydown", "keyup"}
\* e.keyCode of a key event.
KeyCodes == {KEY_BACKSPACE, KEY_LEFT, KEY_RIGHT, KEY_OTHER}

\* value, cursor, debug: the editor's fields (this.value, this.cursor,
\*   this.$debug.innerHTML).
\* lastOp, pre: the last call and the buffer and cursor it was made on.
\* requests: the jax strings the last call handed to updateJaxElement, in order.
\* returned: what the last call returned.
\* jaxElement: whether this.jaxElement has been set.
\* hub: the tasks waiting in MathJax.Hub's queue; issued: the number of render
\*   requests queued so far; done: the tasks the hub has run, in order.
VARIABLES value, cursor, debug, lastOp, pre, requests, returned,
          jaxElement, hub, issued, done
hubVars == <<jaxElement, hub, issued, done>>
vars == <<value, cursor, debug, lastOp, pre, requests, returned,
          jaxElement, hub, issued, done>>

\* ------------------------------------------------- JavaScript primitives
Min(a, b) == IF a < b THEN a ELSE b
Max(a, b) == IF a > b THEN a ELSE b

\* v[i]: the character at 0-based index i, undefined outside 0..length-1.
At(v, i) == IF i >= 0 /\ i < Len(v) THEN v[i + 1] ELSE Undefined

\* ToIntegerOrInfinity of a slice argument: null converts to 0.
ToInteger(x) == IF x = Null THEN 0 ELSE x[1]

\* A relative index of String.prototype.slice: negative counts from the end,
\* and the result is clamped to 0..length.
RelIndex(v, k) == IF k < 0 THEN Max(Len(v) + k, 0) ELSE Min(k, Len(v))

\* v.slice(a, b)
slice(v, a, b) ==
  LET from == RelIndex(v, a)
      to   == RelIndex(v, b)
  IN  IF from >= to THEN <<>> ELSE SubSeq(v, from + 1, to)

\* v.slice(a)
sliceFrom(v, a) == slice(v, a, Len(v))

\* insertBetween(string, index, fragment) of ./utils: fragment spliced into
\* string at offset index; an index before the string splices at offset 0, an
\* index past the end appends.
insertBetween(string, index, fragment) ==
  LET k == Max(0, Min(index, Len(string)))
  IN  SubSeq(string, 1, k) \o fragment \o SubSeq(string, k + 1, Len(string))

State(v, c) == [value |-> v, cursor |-> c]

\* this.$debug.innerHTML as updateDebug leaves it.
updateDebug(v, c) == insertBetween(v, c, <<"|">>)

\* --------------------------------------------------------- updateCursor
\* The leftward loop breaking on '{' instead of on the backslash: it stops on
\* the first character it reads that is not a brace.
RECURSIVE ScanBackslash_stopsEarly(_, _)
ScanBackslash_stopsEarly(v, i) ==
  IF i = 0 THEN -1
  ELSE IF At(v, i - 1) # "{" THEN i - 1
  ELSE ScanBackslash_stopsEarly(v, i - 1)

\* `while (i--) { if (value[i] === '\\') break; }`: the value of i after the
\* loop, entered with i >= 0.  The test reads i, then decrements it.
RECURSIVE ScanBackslash(_, _)
ScanBackslash(v, i) ==
  IF i = 0 THEN -1
  ELSE IF At(v, i - 1) = "\\" THEN i - 1
  ELSE ScanBackslash(v, i - 1)

\* The rightward loop with the test `i++ <= length`: one more round.
RECURSIVE ScanBrace_inclusive(_, _)
ScanBrace_inclusive(v, i) ==
  IF ~(i <= Len(v)) THEN i + 1
  ELSE IF At(v, i + 1) = "{" THEN i + 1
  ELSE ScanBrace_inclusive(v, i + 1)

\* `while (i++ < length) { if (value[i] === '{') break; }`: the value of i
\* after the loop.  The test reads i, then increments it.
RECURSIVE ScanBrace(_, _)
ScanBrace(v, i) ==
  IF ~(i < Len(v)) THEN i + 1
  ELSE IF At(v, i + 1) = "{" THEN i + 1
  ELSE ScanBrace(v, i + 1)

updateCursor(v, c, amount) ==
  LET next0 == c + amount
      nextL == IF amount < 0 /\ At(v, next0) = "{"
               THEN ScanBackslash(v, next0) ELSE next0
      nextR == IF amount > 0 /\ At(v, c) = "\\"
               THEN ScanBrace(v, nextL) + 1 ELSE nextL
      next  == IF amount > 0 /\ At(v, nextR) = "{" THEN nextR + 1 ELSE nextR
  IN  State(v, next)

\* -------------------------------------------------------- findCommandAt
\* First loop of findCommandAt: coordinates.start, entered with i >= 0.
RECURSIVE ScanStart(_, _)
ScanStart(v, i) ==
  IF i = 0 THEN Null
  ELSE IF At(v, i - 1) = "\\" THEN <<i - 1>>
  ELSE ScanStart(v, i - 1)

\* Second loop of findCommandAt together with the `end === null` fallback:
\* coordinates.end is the value of i when the loop stops either way.
RECURSIVE ScanEnd(_, _)
ScanEnd(v, i) ==
  IF ~(i < Len(v)) THEN i + 1
  ELSE IF At(v, i + 1) = "}" /\ At(v, i + 2) # "{" THEN i + 1
  ELSE ScanEnd(v, i + 1)

\* findCommandAt with the backward scan started at position instead of
\* position + 1: the character at position itself is never read.
findCommandAt_skipsPosition(v, position) ==
  [start |-> ScanStart(v, position), end |-> ScanEnd(v, position - 1)]

findCommandAt(v, position) ==
  [start |-> ScanStart(v, position + 1), end |-> ScanEnd(v, position - 1)]

\* erase with the ordinary branch keeping the suffix from current - 1 instead
\* of current: the character before the cursor survives.
erase_keepsPrevious(v, c) ==
  LET current  == c
      previous == c - 1
      coordinates == findCommandAt(v, current)
      before == IF At(v, previous) \in {"{", "}"}
                THEN slice(v, 0, ToInteger(coordinates.start))
                ELSE slice(v, 0, current - 1)
      after  == IF At(v, previous) \in {"{", "}"}
                THEN sliceFrom(v, coordinates.end + 1)
                ELSE sliceFrom(v, current - 1)
  IN  State(before \o after, Len(before))

\* ----------------------------------------------------------------- erase
erase(v, c) ==
  LET current  == c
      previous == c - 1
      coordinates == findCommandAt(v, current)
      before == IF At(v, previous) \in {"{", "}"}
                THEN slice(v, 0, ToInteger(coordinates.start))
                ELSE slice(v, 0, current - 1)
      after  == IF At(v, previous) \in {"{", "}"}
                THEN sliceFrom(v, coordinates.end + 1)
                ELSE sliceFrom(v, current)
  IN  State(before \o after, Len(before))

\* insert with the sentinel branch setting the cursor to length(text) instead
\* of adding length(text) to it.
insert_sentinelToLength(v, c, text) ==
  IF c = -1
  THEN State(text \o v, Len(text))
  ELSE State(insertBetween(v, c, text), c + Len(text))

\* ---------------------------------------------------------------- insert
insert(v, c, text) ==
  IF c = -1
  THEN State(text \o v, c + Len(text))
  ELSE State(insertBetween(v, c, text), c + Len(text))

\* '{}'.repeat(n)
RECURSIVE Repeat(_, _)
Repeat(s, n) == IF n <= 0 THEN <<>> ELSE s \o Repeat(s, n - 1)

\* insertCommand repeating "{}" blockCount times instead of blockCount - 1.
insertCommand_extraBlock(v, c, command, blockCount) ==
  LET s1     == insert(v, c, command \o <<"{">>)
      blocks == <<"}">> \o Repeat(<<"{", "}">>, blockCount)
  IN  State(insertBetween(s1.value, s1.cursor, blocks), s1.cursor)

insertCommand(v, c, command, blockCount) ==
  LET s1     == insert(v, c, command \o <<"{">>)
      blocks == <<"}">> \o Repeat(<<"{", "}">>, blockCount - 1)
  IN  State(insertBetween(s1.value, s1.cursor, blocks), s1.cursor)

\* handleInput with the erase case also taken as the switch's default: every
\* key code that is not left or right erases.
handleInput_defaultErases(v, c, which, char) ==
  IF which = KEY_LEFT
  THEN IF c > 0 THEN updateCursor(v, c, -1) ELSE State(v, c)
  ELSE IF which = KEY_RIGHT
  THEN IF c < Len(v) THEN updateCursor(v, c, 1) ELSE State(v, c)
  ELSE IF which # KEY_NULL
  THEN erase(v, c)
  ELSE IF char = NoChar
  THEN State(v, c)
  ELSE insert(v, c, <<char>>)

\* ----------------------------------------------------------- handleInput
handleInput(v, c, which, char) ==
  IF which = KEY_LEFT
  THEN IF c > 0 THEN updateCursor(v, c, -1) ELSE State(v, c)
  ELSE IF which = KEY_RIGHT
  THEN IF c < Len(v) THEN updateCursor(v, c, 1) ELSE State(v, c)
  ELSE IF which = KEY_BACKSPACE
  THEN erase(v, c)
  ELSE IF char = NoChar
  THEN State(v, c)
  ELSE insert(v, c, <<char>>)

\* ------------------------------------------------------ render requests
\* The jax updateDebug hands to updateJaxElement for buffer v and cursor c.
updateDebugJax(v, c) == insertBetween(v, c, CursorMarker)

\* The jax strings each method hands to updateJaxElement, in call order.
updateCursorRequests(v, c, amount) ==
  LET s == updateCursor(v, c, amount) IN <<updateDebugJax(s.value, s.cursor)>>

\* erase calling updateDebug before it assigns this.cursor.
eraseRequests_staleCursor(v, c) ==
  LET s == erase(v, c) IN <<updateDebugJax(s.value, c)>>

eraseRequests(v, c) ==
  LET s == erase(v, c) IN <<updateDebugJax(s.value, s.cursor)>>

insertRequests(v, c, text) ==
  LET s == insert(v, c, text) IN <<updateDebugJax(s.value, s.cursor)>>

insertCommandRequests(v, c, command, blockCount) ==
  LET s == insertCommand(v, c, command, blockCount)
  IN  insertRequests(v, c, command \o <<"{">>)
        \o <<updateDebugJax(s.value, s.cursor)>>

handleInputRequests(v, c, which, char) ==
  IF which = KEY_LEFT
  THEN IF c > 0 THEN updateCursorRequests(v, c, -1) ELSE <<>>
  ELSE IF which = KEY_RIGHT
  THEN IF c < Len(v) THEN updateCursorRequests(v, c, 1) ELSE <<>>
  ELSE IF which = KEY_BACKSPACE
  THEN eraseRequests(v, c)
  ELSE IF char = NoChar
  THEN <<>>
  ELSE insertRequests(v, c, <<char>>)

\* ------------------------------------------------------ handleInputEvent
\* `inputValue.split('').forEach(char => this.handleInput(which, char))`
RECURSIVE handleInputEach(_, _, _, _)
handleInputEach(v, c, which, chars) ==
  IF chars = <<>> THEN State(v, c)
  ELSE LET s == handleInput(v, c, which, Head(chars))
       IN  handleInputEach(s.value, s.cursor, which, Tail(chars))

RECURSIVE handleInputEachRequests(_, _, _, _)
handleInputEachRequests(v, c, which, chars) ==
  IF chars = <<>> THEN <<>>
  ELSE LET s == handleInput(v, c, which, Head(chars))
       IN  handleInputRequests(v, c, which, Head(chars))
             \o handleInputEachRequests(s.value, s.cursor, which, Tail(chars))

\* `which` as handleInputEvent passes it on: null on keyup.
EventWhich(type, keyCode) == IF type = "keyup" THEN KEY_NULL ELSE keyCode

handleInputEvent(v, c, type, keyCode, inputValue) ==
  IF Len(inputValue) = 0
  THEN handleInput(v, c, EventWhich(type, keyCode), NoChar)
  ELSE handleInputEach(v, c, EventWhich(type, keyCode), inputValue)

handleInputEventRequests(v, c, type, keyCode, inputValue) ==
  IF Len(inputValue) = 0
  THEN handleInputRequests(v, c, EventWhich(type, keyCode), NoChar)
  ELSE handleInputEachRequests(v, c, EventWhich(type, keyCode), inputValue)

\* ------------------------------------------------------- state machine
\* lastOp records the call that produced the current state and pre the
\* buffer and cursor it was made on.
Op(op, which, char, text, blockCount) ==
  [op |-> op, which |-> which, char |-> char, text |-> text,
   blockCount |-> blockCount]

\* A task of the hub's queue: what it does, the render request it belongs to
\* (0: the constructor's initial typeset) and, for a ['Text', jaxElement, jax]
\* task, whether this.jaxElement was set when the array was built.
Task(kind, req, target) == [kind |-> kind, req |-> req, target |-> target]

\* `coordinates` as findCommandAt creates it, and what a void method returns.
NoCoordinates == [start |-> Null, end |-> Null]

\* The constructor: the fields, and the initial typeset queued with its two
\* callbacks (the one that sets jaxElement, the one that fixes the height and
\* calls updateCursorElement).
Init ==
  /\ value = <<>>
  /\ cursor = 0
  /\ debug = <<"|">>
  /\ lastOp = Op("constructor", KEY_NULL, NoChar, <<>>, 0)
  /\ pre = State(<<>>, 0)
  /\ requests = <<>>
  /\ returned = NoCoordinates
  /\ jaxElement = FALSE
  /\ hub = <<Task("Typeset", 0, FALSE), Task("SetJaxElement", 0, FALSE),
             Task("Ready", 0, FALSE)>>
  /\ issued = 0
  /\ done = <<>>

Become(s, op) ==
  /\ Len(s.value) <= MaxLen
  /\ value' = s.value
  /\ cursor' = s.cursor
  /\ debug' = updateDebug(s.value, s.cursor)
  /\ lastOp' = op
  /\ pre' = State(value, cursor)

HandleInput(which, char) ==
  /\ Become(handleInput(value, cursor, which, char),
            Op("handleInput", which, char, <<>>, 0))
  /\ requests' = handleInputRequests(value, cursor, which, char)
  /\ returned' = NoCoordinates

InsertCommand(command, blockCount) ==
  /\ Become(insertCommand(value, cursor, command, blockCount),
            Op("insertCommand", KEY_NULL, NoChar, command, blockCount))
  /\ requests' = insertCommandRequests(value, cursor, command, blockCount)
  /\ returned' = NoCoordinates

Insert(text) ==
  /\ Become(insert(value, cursor, text), Op("insert", KEY_NULL, NoChar, text, 0))
  /\ requests' = insertRequests(value, cursor, text)
  /\ returned' = NoCoordinates

\* A key event on the input element, with the element's trimmed value.
HandleInputEvent(type, keyCode, inputValue) ==
  /\ Become(handleInputEvent(value, cursor, type, keyCode, inputValue),
            Op("handleInputEvent", EventWhich(type, keyCode), NoChar,
               inputValue, 0))
  /\ requests' = handleInputEventRequests(value, cursor, type, keyCode,
                                          inputValue)
  /\ returned' = NoCoordinates

\* The call findCommandAt(position) and the position it was made with.
OpAt(position) ==
  [op |-> "findCommandAt", which |-> KEY_NULL, char |-> NoChar, text |-> <<>>,
   blockCount |-> 0, position |-> position]

\* findCommandAt called on the index of a character of the buffer: it reads
\* the buffer and returns the coordinates.
FindCommandAt(position) ==
  /\ Become(State(value, cursor), OpAt(position))
  /\ requests' = <<>>
  /\ returned' = findCommandAt(value, position)

\* updateDebug storing the marked-up text in this.value.
afterUpdateDebug_storesMarkup(v, c) == State(insertBetween(v, c, <<"|">>), c)

\* What updateDebug leaves of this.value and this.cursor: it reads both and
\* assigns neither.
afterUpdateDebug(v, c) == State(v, c)

\* What a task run by the hub leaves of this.value and this.cursor: the
\* constructor's callbacks, the ['Text', ...] task, updateCursorElement and the
\* function it queues assign neither.
afterTask(v, c, kind) == State(v, c)

\* updateDebug calling this.updateCursorElement() instead of passing it bound
\* as the callback: the caret function is queued before the ['Text', ...] task
\* and no callback follows it.
updateDebugTasks_caretFirst(req, target) ==
  <<Task("Caret", req, target), Task("Text", req, target)>>

\* What one updateDebug pushes on the hub's queue through updateJaxElement:
\* ['Text', this.jaxElement, jax], then the callback updateCursorElement.
updateDebugTasks(req, target) ==
  <<Task("Text", req, target), Task("Callback", req, target)>>

RECURSIVE TasksFor(_, _, _)
TasksFor(n, first, target) ==
  IF n = 0 THEN <<>>
  ELSE updateDebugTasks(first, target) \o TasksFor(n - 1, first + 1, target)

\* The n render requests of a call pushed on the hub's queue.
Queue(n) ==
  /\ issued + n <= MaxRequests
  /\ hub' = hub \o TasksFor(n, issued + 1, jaxElement)
  /\ issued' = issued + n
  /\ UNCHANGED <<jaxElement, done>>

\* A call of updateDebug().
UpdateDebug ==
  /\ Become(afterUpdateDebug(value, cursor),
            Op("updateDebug", KEY_NULL, NoChar, <<>>, 0))
  /\ requests' = <<updateDebugJax(value, cursor)>>
  /\ returned' = NoCoordinates

\* What running a task pushes on the queue: updateCursorElement, called by the
\* constructor's last callback and as the callback of every render request,
\* queues the function that positions the caret.
Pushed(task) ==
  IF task.kind \in {"Ready", "Callback"}
  THEN <<Task("Caret", task.req, task.target)>>
  ELSE <<>>

\* The hub runs the task at the head of its queue.
RunTask ==
  /\ hub # <<>>
  /\ Become(afterTask(value, cursor, Head(hub).kind),
            Op("hubTask", KEY_NULL, NoChar, <<Head(hub).kind>>, 0))
  /\ requests' = <<>>
  /\ returned' = NoCoordinates
  /\ hub' = Tail(hub) \o Pushed(Head(hub))
  /\ jaxElement' = (jaxElement \/ Head(hub).kind = "SetJaxElement")
  /\ done' = Append(done, Head(hub))
  /\ issued' = issued

\* The calls alone: the hub's queue is not followed (RenderNext follows it).
Next ==
  \/ \E input \in Inputs :
       HandleInput(input[1], input[2]) /\ UNCHANGED hubVars
  \/ \E command \in Commands, blockCount \in BlockCounts :
       InsertCommand(command, blockCount) /\ UNCHANGED hubVars

Spec == Init /\ [][Next]_vars

\* The editor driven through every public method, direct insert calls included.
NextInsert ==
  \/ Next
  \/ \E text \in Texts : Insert(text) /\ UNCHANGED hubVars

SpecInsert == Init /\ [][NextInsert]_vars

\* The editor driven by key events that carry typed bursts.
NextEvent ==
  \/ Next
  \/ \E type \in EventTypes, keyCode \in KeyCodes, inputValue \in Bursts :
       HandleInputEvent(type, keyCode, inputValue) /\ UNCHANGED hubVars

SpecEvent == Init /\ [][NextEvent]_vars

\* The key events sent while the hub is followed: the three recognised keys
\* and two typed characters.
RenderInputs ==
  {<<KEY_LEFT, NoChar>>, <<KEY_RIGHT, NoChar>>, <<KEY_BACKSPACE, NoChar>>,
   <<KEY_NULL, "a">>, <<KEY_NULL, "{">>}

\* The editor together with the hub: every call queues its render requests and
\* the hub runs its tasks at any time between two calls.
RenderNext ==
  \/ \E input \in RenderInputs :
       HandleInput(input[1], input[2]) /\ Queue(Len(requests'))
  \/ InsertCommand(<<"\\">>, 1) /\ Queue(Len(requests'))
  \/ UpdateDebug /\ Queue(1)
  \/ RunTask

SpecRender == Init /\ [][RenderNext]_vars

\* The buffer typed character by character, with findCommandAt called on
\* every index of it.
NextLocate ==
  \/ \E char \in Chars : HandleInput(KEY_NULL, char) /\ UNCHANGED hubVars
  \/ \E position \in 0..(Len(value) - 1) :
       FindCommandAt(position) /\ UNCHANGED hubVars

SpecLocate == Init /\ [][NextLocate]_vars

\* ------------------------------------------------------------ properties
\* What the last call was.
Erased == lastOp.op = "handleInput" /\ lastOp.which = KEY_BACKSPACE
Typed ==
  /\ lastOp.op = "handleInput"
  /\ lastOp.which \in {KEY_NULL, KEY_OTHER}
  /\ lastOp.char # NoChar
Inserted == Typed \/ lastOp.op = "insert"
InsertedText == IF lastOp.op = "insert" THEN lastOp.text ELSE <<lastOp.char>>
Unchanged == value = pre.value /\ cursor = pre.cursor
InDomain(v, c) == c >= -1 /\ c <= Len(v)
InBuffer(v, c) == c >= 0 /\ c <= Len(v)

\* v without the characters at 0-based indices from..to.
Without(v, from, to) == SubSeq(v, 1, from) \o SubSeq(v, to + 2, Len(v))

\* C1: after any sequence of handleInput and insertCommand calls the cursor
\* is the sentinel -1 or an offset of the buffer: -1 <= cursor <= length.
C1_CursorInDomain == InDomain(value, cursor)

\* C2: the cursor is never strictly inside a command name: no backslash at
\* index s whose first following '{' is at index b has s < cursor <= b.
C2_CursorOutsideName ==
  ~ \E s \in 0..(Len(value) - 1), b \in 0..(Len(value) - 1) :
      /\ s < b
      /\ At(value, s) = "\\"
      /\ At(value, b) = "{"
      /\ \A k \in (s + 1)..(b - 1) : At(value, k) # "{"
      /\ s < cursor
      /\ cursor <= b

\* C3: erase with cursor = 0 changes neither the buffer nor the cursor,
\* whatever the buffer holds.
C3_EraseAtZeroIsNoOp == (Erased /\ pre.cursor = 0) => Unchanged

\* Number of '{' minus number of '}' among the indices s..k of v.
RECURSIVE Depth(_, _, _)
Depth(v, s, k) ==
  IF k < s THEN 0
  ELSE Depth(v, s, k - 1)
       + (IF At(v, k) = "{" THEN 1 ELSE IF At(v, k) = "}" THEN -1 ELSE 0)

\* Indices s..e of v hold one command \name{..}{..}: a backslash at s, no other
\* backslash, blocks that are not nested, and e its final '}' (the one that no
\* '{' follows).
IsCommand(v, s, e) ==
  /\ 0 <= s /\ s < e /\ e < Len(v)
  /\ At(v, s) = "\\"
  /\ At(v, e) = "}"
  /\ At(v, e + 1) # "{"
  /\ \A k \in (s + 1)..e : At(v, k) # "\\"
  /\ \A k \in s..e : Depth(v, s, k) \in {0, 1}
  /\ \A k \in s..(e - 1) : (At(v, k) = "}") => (At(v, k + 1) = "{")

\* C4: when the character before the cursor is a brace of a command spanning
\* s..e, erase removes exactly the indices s..e, keeps everything before s and
\* after e, and leaves the cursor at s.
C4_EraseRemovesCommand ==
  \A s \in 0..(Len(pre.value) - 1), e \in 0..(Len(pre.value) - 1) :
    ( /\ Erased
      /\ At(pre.value, pre.cursor - 1) \in {"{", "}"}
      /\ IsCommand(pre.value, s, e)
      /\ s < pre.cursor - 1
      /\ pre.cursor - 1 <= e )
    => (value = Without(pre.value, s, e) /\ cursor = s)

\* C5: when the character before the cursor is a brace and no backslash is at
\* or before the cursor, erase removes exactly that one character and the
\* cursor decreases by 1.
C5_EraseFallsBack ==
  ( /\ Erased
    /\ At(pre.value, pre.cursor - 1) \in {"{", "}"}
    /\ \A k \in 0..pre.cursor : At(pre.value, k) # "\\" )
  => ( /\ value = Without(pre.value, pre.cursor - 1, pre.cursor - 1)
       /\ cursor = pre.cursor - 1 )

\* C6 as claimed: after a character other than a brace was inserted at any
\* cursor of -1..length, an erase restores the buffer and cursor held before.
C6_RoundTripFromSentinel ==
  ( /\ Typed
    /\ lastOp.char \notin {"{", "}"}
    /\ InDomain(pre.value, pre.cursor) )
  => erase(value, cursor) = pre

\* C6 as amended: after a character other than a brace was inserted at a
\* cursor of 0..length, an erase restores the buffer and cursor held before.
C6_RoundTrip ==
  ( /\ Typed
    /\ lastOp.char \notin {"{", "}"}
    /\ InBuffer(pre.value, pre.cursor) )
  => erase(value, cursor) = pre

C6_Witness ==
  /\ Typed
  /\ lastOp.char = "\\"
  /\ pre.cursor > 0
  /\ pre.cursor < Len(pre.value)
  /\ erase(value, cursor) = pre

\* C7: insert(s) at a cursor of -1..length lengthens the buffer by length(s),
\* advances the cursor by length(s), and the buffer is the old one with s
\* placed somewhere in it: the old characters keep their order.
C7_InsertGrowsByLength ==
  ( /\ Inserted
    /\ InDomain(pre.value, pre.cursor) )
  => ( /\ Len(value) = Len(pre.value) + Len(InsertedText)
       /\ cursor = pre.cursor + Len(InsertedText)
       /\ \E k \in 0..Len(pre.value) :
            value = SubSeq(pre.value, 1, k) \o InsertedText
                      \o SubSeq(pre.value, k + 1, Len(pre.value)) )

C7_Witness ==
  /\ lastOp.op = "insert"
  /\ lastOp.text = <<"{", "\\">>
  /\ pre.cursor = -1
  /\ Len(pre.value) > 1
  /\ cursor = 1

\* C8: insertCommand(name, n) at a cursor c of 0..length turns P + S, P the
\* first c characters, into P + name + n times "{}" + S, with cursor
\* c + length(name) + 1.
C8_InsertCommandTemplate ==
  ( /\ lastOp.op = "insertCommand"
    /\ InBuffer(pre.value, pre.cursor) )
  => ( /\ value = SubSeq(pre.value, 1, pre.cursor)
                    \o lastOp.text
                    \o Repeat(<<"{", "}">>, lastOp.blockCount)
                    \o SubSeq(pre.value, pre.cursor + 1, Len(pre.value))
       /\ cursor = pre.cursor + Len(lastOp.text) + 1 )

C8_Witness ==
  /\ lastOp.op = "insertCommand"
  /\ lastOp.blockCount = 1
  /\ pre.cursor > 0
  /\ pre.cursor < Len(pre.value)
  /\ cursor = pre.cursor + Len(lastOp.text) + 1

\* C9: after insertCommand at a cursor of -1..length, the sentinel included,
\* the cursor is at the start of the first empty block of the inserted command:
\* the inserted name ends at cursor-2, the '{' after it is at cursor-1 and the
\* block's '}' is at cursor.
C9_CursorInFirstBlock ==
  (lastOp.op = "insertCommand" /\ InDomain(pre.value, pre.cursor))
  => ( /\ At(value, cursor - 1) = "{"
       /\ At(value, cursor) = "}"
       /\ cursor - 1 - Len(lastOp.text) >= 0
       /\ SubSeq(value, cursor - Len(lastOp.text), cursor - 1) = lastOp.text )

\* C10 as claimed: handleInput with a key code other than left, right and
\* backspace changes neither buffer nor cursor, whatever char is.
C10_OtherKeyNeverAlters ==
  (lastOp.op = "handleInput" /\ lastOp.which = KEY_OTHER) => Unchanged

\* C10 as amended: handleInput with a key code other than left, right and
\* backspace and no character changes neither buffer nor cursor.
C10_OtherKeyAloneIgnored ==
  (lastOp.op = "handleInput" /\ lastOp.which = KEY_OTHER /\ lastOp.char = NoChar)
  => Unchanged

C10_Witness ==
  /\ lastOp.op = "handleInput"
  /\ lastOp.which = KEY_OTHER
  /\ lastOp.char = NoChar
  /\ Len(value) > 1
  /\ cursor > 0
  /\ Unchanged

\* Whether the last call was a move that passed its range guard.
MovedLeft ==
  /\ lastOp.op = "handleInput"
  /\ lastOp.which = KEY_LEFT
  /\ pre.cursor > 0
MovedRight ==
  /\ lastOp.op = "handleInput"
  /\ lastOp.which = KEY_RIGHT
  /\ pre.cursor < Len(pre.value)

\* C12: after a rightward move the character at the new cursor is not '{'.
C12_RightNeverOnBrace == MovedRight => At(value, cursor) # "{"

\* C13: a rightward move from a backslash lands one past the first '{' at an
\* index >= cursor + 1, whatever the length of the name, and the new cursor is
\* at most length(buffer) even when no '{' follows.
C13_RightSkipsName ==
  (MovedRight /\ At(pre.value, pre.cursor) = "\\")
  => ( /\ cursor <= Len(value)
       /\ \A b \in (pre.cursor + 1)..(Len(pre.value) - 1) :
            ( /\ At(pre.value, b) = "{"
              /\ \A k \in (pre.cursor + 1)..(b - 1) : At(pre.value, k) # "{" )
            => cursor = b + 1 )

\* Indices s..b of v hold `\name{`: a backslash at s, '{' at b and between
\* them a name without backslash or brace.
IsNameAndBrace(v, s, b) ==
  /\ 0 <= s /\ s < b /\ b < Len(v)
  /\ At(v, s) = "\\"
  /\ At(v, b) = "{"
  /\ \A k \in (s + 1)..(b - 1) : At(v, k) \notin {"\\", "{", "}"}

\* C14: a leftward move from just past the '{' of `\name{` lands on the index
\* of that backslash and leaves the buffer unchanged.
C14_LeftLandsOnBackslash ==
  \A s \in 0..(Len(pre.value) - 1) :
    (MovedLeft /\ IsNameAndBrace(pre.value, s, pre.cursor - 1))
    => (cursor = s /\ value = pre.value)

C14_Witness ==
  /\ MovedLeft
  /\ pre.cursor = 4
  /\ IsNameAndBrace(pre.value, 1, 3)
  /\ cursor = 1

\* C20: the loops of the last call stop.  A backward `while (i--)` is entered
\* with i >= 0 (updateCursor with i = cursor - 1, findCommandAt with
\* i = cursor + 1), and a forward `while (i++ < length)` leaves i at most
\* length + 1.
C20_ScansTerminate ==
  /\ (MovedLeft /\ At(pre.value, pre.cursor - 1) = "{")
     => (pre.cursor - 1 >= 0 /\ cursor >= -1)
  /\ (MovedRight /\ At(pre.value, pre.cursor) = "\\")
     => ScanBrace(pre.value, pre.cursor + 1) <= Len(pre.value) + 1
  /\ (Erased /\ At(pre.value, pre.cursor - 1) \in {"{", "}"})
     => ( /\ pre.cursor + 1 >= 0
          /\ findCommandAt(pre.value, pre.cursor).end <= Len(pre.value) + 1 )

C20_Witness ==
  /\ MovedRight
  /\ At(pre.value, pre.cursor) = "\\"
  /\ Len(value) > 2
  /\ ScanBrace(pre.value, pre.cursor + 1) = Len(pre.value) + 1

\* Indices s..e of v hold one command \name{b1}...{bn} whose blocks hold no
\* braces: a backslash at s, a name without backslash, blocks that are not
\* nested, and e the final '}' (the one that no '{' follows).
IsBlockCommand(v, s, e) ==
  /\ 0 <= s /\ s < e /\ e < Len(v)
  /\ At(v, s) = "\\"
  /\ At(v, e) = "}"
  /\ At(v, e + 1) # "{"
  /\ \A k \in (s + 1)..e : (At(v, k) = "\\") => (Depth(v, s, k) = 1)
  /\ \A k \in s..e : Depth(v, s, k) \in {0, 1}
  /\ \A k \in s..(e - 1) : (At(v, k) = "}") => (At(v, k + 1) = "{")

Located == lastOp.op = "findCommandAt"

\* C15 as claimed: for a command spanning s..e whose blocks hold no braces,
\* findCommandAt of any index in s..e returns start = s and end = e.
C15_LocatesCommand ==
  \A s \in 0..(Len(value) - 1), e \in 0..(Len(value) - 1) :
    ( /\ Located
      /\ IsBlockCommand(value, s, e)
      /\ s <= lastOp.position
      /\ lastOp.position <= e )
    => returned = [start |-> <<s>>, end |-> e]

\* C15 as amended: for a command spanning s..e whose blocks hold neither
\* braces nor backslashes, findCommandAt of any index in s..e returns
\* start = s and end = e.
C15_LocatesPlainCommand ==
  \A s \in 0..(Len(value) - 1), e \in 0..(Len(value) - 1) :
    ( /\ Located
      /\ IsCommand(value, s, e)
      /\ s <= lastOp.position
      /\ lastOp.position <= e )
    => returned = [start |-> <<s>>, end |-> e]

C15_Witness ==
  /\ Located
  /\ Len(value) = 5
  /\ IsCommand(value, 1, 3)
  /\ lastOp.position = 1
  /\ returned = [start |-> <<1>>, end |-> 3]

\* Whether the last call was handleInput with a directive: a move, an erase or
\* a literal character.
Directive ==
  /\ lastOp.op = "handleInput"
  /\ \/ lastOp.which \in {KEY_LEFT, KEY_RIGHT, KEY_BACKSPACE}
     \/ lastOp.char # NoChar
\* The same, a move counting only when its range guard let it through.
DirectiveCarriedOut == MovedLeft \/ MovedRight \/ Erased \/ Typed

RenderedCurrent ==
  /\ Len(requests) >= 1
  /\ requests[Len(requests)] = insertBetween(value, cursor, CursorMarker)

\* C16 as claimed: every directive handleInput processes, a move rejected by
\* its range guard included, issues at least one render request, and the last
\* one carries the current buffer with the marker at the current cursor.
C16_EveryDirectiveRenders == Directive => RenderedCurrent

\* C16 as amended: every directive handleInput carries out (a move its range
\* guard lets through, an erase, a literal character) issues at least one
\* render request, and the last one carries the current buffer with the
\* marker at the current cursor.
C16_CarriedOutDirectiveRenders == DirectiveCarriedOut => RenderedCurrent

C16_Witness ==
  /\ Erased
  /\ Len(pre.value) >= 2
  /\ Len(value) >= 1
  /\ cursor = pre.cursor - 1
  /\ requests = <<insertBetween(value, cursor, CursorMarker)>>

\* C18: a typed burst c1..cn delivered by one key event as n handleInput calls
\* leaves the buffer and cursor that a single insert of the string c1..cn
\* leaves, from every cursor of -1..length.
C18_BurstIsOneInsert ==
  ( /\ lastOp.op = "handleInputEvent"
    /\ lastOp.which \in {KEY_NULL, KEY_OTHER}
    /\ Len(lastOp.text) >= 1
    /\ InDomain(pre.value, pre.cursor) )
  => State(value, cursor) = insert(pre.value, pre.cursor, lastOp.text)

\* C11: updateDebug and the tasks the hub runs (the render callbacks) change
\* neither buffer nor cursor, and the markup updateDebug issued is the markup
\* a second updateDebug issues.
C11_RenderLeavesState ==
  /\ (lastOp.op \in {"updateDebug", "hubTask"}) => Unchanged
  /\ (lastOp.op = "updateDebug")
     => ( /\ requests = <<updateDebugJax(value, cursor)>>
          /\ debug = insertBetween(value, cursor, <<"|">>) )

C11_Witness ==
  /\ lastOp.op = "hubTask"
  /\ lastOp.text = <<"Caret">>
  /\ Len(value) >= 2
  /\ hub # <<>>
  /\ Unchanged

\* C17: the hub runs the typeset steps and the completion callbacks of the
\* render requests in issue order, and the caret step of a request runs only
\* after the typeset step of that request, with no older typeset step between.
C17_CallbacksInIssueOrder ==
  /\ \A i \in DOMAIN done, j \in DOMAIN done :
       ( /\ i < j
         /\ done[i].kind = done[j].kind
         /\ done[i].kind \in {"Text", "Callback"} )
       => done[i].req < done[j].req
  /\ \A j \in DOMAIN done :
       (done[j].kind = "Caret")
       => \E i \in 1..(j - 1) :
            /\ done[i].kind \in {"Text", "Typeset"}
            /\ done[i].req = done[j].req
            /\ \A k \in (i + 1)..(j - 1) :
                 (done[k].kind = "Text") => (done[k].req > done[j].req)

C17_Witness ==
  \E i \in DOMAIN done, j \in DOMAIN done :
    /\ i < j
    /\ done[i].kind = "Text"
    /\ done[i].req = 2
    /\ done[j].kind = "Caret"
    /\ done[j].req = 1

\* C19: every ['Text', jaxElement, jax] task on the hub's queue was built with
\* this.jaxElement already set by the constructor's callback.
C19_RenderTargetSet ==
  \A i \in DOMAIN hub : (hub[i].kind = "Text") => hub[i].target

====
